---- MODULE Spec2Model ----
(***************************************************************************)
(* A model of enigma.hpp: Rotor, EnigmaMachine and Generator.              *)
(*                                                                         *)
(* A std::bitset<base> is modelled as the set of its set bit indices, a    *)
(* std::array<Index, base> as a function on 0..base-1.  Rotors are         *)
(* numbered 1..rotor_count; rotor i of the model is rotors[i-1] of the     *)
(* code.  Where step counts stay far below 2^64, std::size_t arithmetic is *)
(* modelled by the integers; SpecWide carries the 64 bits of a std::size_t *)
(* in four limbs of 16 bits.                                               *)
(***************************************************************************)
EXTENDS Integers, Sequences, FiniteSets, TLC

\* Largest alphabet size (template parameter `base`) of the enumerated rotors.
MaxBase == 3

\* advance(steps) is called with steps in 0..Laps*base.
Laps == 3

\* Each generator is drawn from at most MaxDraws times.
MaxDraws == 3

\* The largest assembly: main() builds a machine of three rotors.
RotorCount == 3

\* The alphabet size of main(): cipherI.size().
MainBase == 26

\* The largest Index of main(): the tables are arrays of std::uint8_t.
IndexMax == 255

VARIABLES
  NDEBUG,             \* whether the build defines NDEBUG: assert() is compiled out
  base,               \* template parameter `base`
  rotor_count,        \* template parameter `rotor_count`
  forward_cipher,     \* Rotor::forward_cipher, per rotor
  reverse_cipher,     \* Rotor::reverse_cipher, per rotor
  notches,            \* Rotor::notches, per rotor
  reflector,          \* EnigmaMachine::reflector
  turnover_callback,  \* Rotor::turnover_callback, per rotor: 0 is ignoreTurnover,
                      \* j > 0 is the machine's lambda that advances rotor j
  position,           \* Rotor::position, per rotor
  assembled,          \* whether the rotors have been moved into an EnigmaMachine
  seq_val,            \* Generator::seq_val, per generator constructed so far
  seeded,             \* per generator, whether its seed was a code point (seed < base)
  drawn,              \* per generator, the number of its draws that were counted
  last                \* the last call: its name, argument, return value, the rotor
                      \* positions before it, and per rotor the arguments of the
                      \* advance(steps) calls and of the turnover callbacks it made

vars == <<NDEBUG, base, rotor_count, forward_cipher, reverse_cipher, notches, reflector,
          turnover_callback, position, assembled, seq_val, seeded, drawn, last>>

config == <<NDEBUG, base, rotor_count, forward_cipher, reverse_cipher, notches, reflector>>

generators == <<seq_val, seeded, drawn>>

\* ------------------------------------------------------------- std::bitset

AllBits(b) == 0 .. (b - 1)

\* operator~
Flip(bits, b) == AllBits(b) \ bits

\* operator<< : bits shifted past the top are dropped, a shift >= b leaves none
ShiftLeft(bits, n, b) == {i \in AllBits(b) : (i - n) \in bits}

\* operator>>
ShiftRight(bits, n, b) == {i \in AllBits(b) : (i + n) \in bits}

\* ------------------------------------------------------------------- Rotor

\* The reverse table the constructor's loop leaves behind: entry v is the last
\* i with cipher[i] = v.  An entry no cipher[i] names is never written.
Written(cipher, b) == {v \in AllBits(b) : \E i \in AllBits(b) : cipher[i] = v}

\* The reverse entry copied from the forward table instead of inverted.
LastIndexOf_forwardEntry(cipher, b, v) == cipher[v]

LastIndexOf(cipher, b, v) ==
  CHOOSE i \in AllBits(b) :
    /\ cipher[i] = v
    /\ \A j \in AllBits(b) : cipher[j] = v => j <= i

\* advance() looking for the notch at the position it leaves.
advance_notchAtOldPosition(p, S, b) ==
  LET incremented == p + 1
      wrapped == IF incremented = b THEN 0 ELSE incremented
  IN  [position |-> wrapped, knocks |-> IF p \in S THEN 1 ELSE 0]

\* Rotor::advance(): the new position and the number of callback invocations.
advance(p, S, b) ==
  LET incremented == p + 1
      wrapped == IF incremented = b THEN 0 ELSE incremented
  IN  [position |-> wrapped, knocks |-> IF wrapped \in S THEN 1 ELSE 0]

\* advance(steps) without the knocks of the full revolutions.
advanceSteps_noFullRevolutions(p, S, b, steps) ==
  LET total == p + steps
      next == total % b
      lead == IF p <= next THEN p ELSE next
      trail == IF p <= next THEN next ELSE p
      shifted == ShiftRight(ShiftLeft(AllBits(b), lead + (b - trail), b), lead, b)
      mask == IF next < p THEN Flip(shifted, b) ELSE shifted
  IN  [position |-> next, knocks |-> Cardinality(S \cap mask)]

\* advance(steps) that wraps the position once instead of taking it modulo base.
advanceSteps_wrapOnce(p, S, b, steps) ==
  LET total == p + steps
      full == (total \div b) * Cardinality(S)
      next == IF total >= b THEN total - b ELSE total
      reduced == total % b
      lead == IF p <= reduced THEN p ELSE reduced
      trail == IF p <= reduced THEN reduced ELSE p
      shifted == ShiftRight(ShiftLeft(AllBits(b), lead + (b - trail), b), lead, b)
      mask == IF reduced < p THEN Flip(shifted, b) ELSE shifted
  IN  [position |-> next, knocks |-> full + Cardinality(S \cap mask)]

\* Rotor::advance(steps): the new position and the knock count.
advanceSteps(p, S, b, steps) ==
  LET total == p + steps
      full == (total \div b) * Cardinality(S)
      next == total % b
      lead == IF p <= next THEN p ELSE next
      trail == IF p <= next THEN next ELSE p
      shifted == ShiftRight(ShiftLeft(AllBits(b), lead + (b - trail), b), lead, b)
      mask == IF next < p THEN Flip(shifted, b) ELSE shifted
  IN  [position |-> next, knocks |-> full + Cardinality(S \cap mask)]

\* --- std::size_t at its full width: <<a, b, c, d>> is the 64-bit number
\* ((a * Limb + b) * Limb + c) * Limb + d, every limb in 0..Limb-1.

Limb == 65536

Wide(n) == <<0, 0, 0, n>>

\* SIZE_MAX - k
SizeMaxLess(k) == <<Limb - 1, Limb - 1, Limb - 1, Limb - 1 - k>>

\* u + w as std::size_t adds: modulo 2^64.
Sum64(u, w) ==
  LET d == u[4] + w[4]
      c == u[3] + w[3] + (d \div Limb)
      b == u[2] + w[2] + (c \div Limb)
      a == u[1] + w[1] + (b \div Limb)
  IN  <<a % Limb, b % Limb, c % Limb, d % Limb>>

\* w * n modulo 2^64, for n below Limb.
Product64(w, n) ==
  LET d == w[4] * n
      c == w[3] * n + (d \div Limb)
      b == w[2] * n + (c \div Limb)
      a == w[1] * n + (b \div Limb)
  IN  <<a % Limb, b % Limb, c % Limb, d % Limb>>

\* w / n and w % n by long division, for n below Limb.
Division64(w, n) ==
  LET a == w[1]
      b == (a % n) * Limb + w[2]
      c == (b % n) * Limb + w[3]
      d == (c % n) * Limb + w[4]
  IN  [quotient |-> <<a \div n, b \div n, c \div n, d \div n>>, remainder |-> d % n]

\* Rotor::advance(steps) with position + steps computed as the code computes
\* it, in 64 bits: the new position and the knock count, a 64-bit number.
advanceSteps64(p, S, b, steps) ==
  LET total == Sum64(Wide(p), steps)
      full == Product64(Division64(total, b).quotient, Cardinality(S))
      next == Division64(total, b).remainder
      lead == IF p <= next THEN p ELSE next
      trail == IF p <= next THEN next ELSE p
      shifted == ShiftRight(ShiftLeft(AllBits(b), lead + (b - trail), b), lead, b)
      mask == IF next < p THEN Flip(shifted, b) ELSE shifted
  IN  [position |-> next, knocks |-> Sum64(full, Wide(Cardinality(S \cap mask)))]

\* advance(steps) calling back whatever the count.
callsBack_always(knocks) == knocks >= 0

\* Whether advance(steps) calls turnover_callback.
callsBack(knocks) == knocks > 0

doForwardCipher(i, pos, val) == forward_cipher[i][(pos[i] + val) % base]

\* The reverse lookup with the offset taken off instead of added.
doReverseCipher_offsetInverted(i, pos, val) ==
  reverse_cipher[i][(val + base - pos[i]) % base]

\* The reverse lookup with the index held at base - 1 instead of wrapped.
doReverseCipher_indexClamped(i, pos, val) ==
  reverse_cipher[i][IF pos[i] + val >= base THEN base - 1 ELSE pos[i] + val]

doReverseCipher(i, pos, val) == reverse_cipher[i][(pos[i] + val) % base]

\* What one call did to the assembly: positions, and per rotor the advance(steps)
\* arguments (adv) and the turnover_callback arguments (cb).
NoCalls == [i \in 1 .. rotor_count |-> <<>>]

Before == [position |-> position, adv |-> NoCalls, cb |-> NoCalls]

RECURSIVE RotorAdvanceSteps(_, _, _)
RECURSIVE InvokeTurnover(_, _, _)

\* turnover_callback(knocks) of rotor i: ignoreTurnover, or the machine's lambda,
\* next_rotor.advance(knocks).
InvokeTurnover(st, i, knocks) ==
  LET called == [st EXCEPT !.cb[i] = Append(@, knocks)]
  IN  IF turnover_callback[i] = 0
        THEN called
        ELSE RotorAdvanceSteps(called, turnover_callback[i], knocks)

\* Rotor::advance(steps) on rotor i, with the callbacks it sets off.
RotorAdvanceSteps(st, i, steps) ==
  LET r == advanceSteps(st.position[i], notches[i], base, steps)
      moved == [st EXCEPT !.position[i] = r.position, !.adv[i] = Append(@, steps)]
  IN  IF callsBack(r.knocks) THEN InvokeTurnover(moved, i, r.knocks) ELSE moved

\* Rotor::advance() on rotor i.
RotorAdvance(st, i) ==
  LET r == advance(st.position[i], notches[i], base)
      moved == [st EXCEPT !.position[i] = r.position]
  IN  IF r.knocks = 1 THEN InvokeTurnover(moved, i, 1) ELSE moved

\* ----------------------------------------------------------- EnigmaMachine

\* EnigmaMachine::advance(steps): rotors[0].advance(steps).
machineAdvance(steps) == RotorAdvanceSteps(Before, 1, steps)

RECURSIVE ForwardPass(_, _, _)
RECURSIVE ReversePass(_, _, _)

\* The loop from rotors.begin() to rotors.end().
ForwardPass(pos, val, i) ==
  IF i > rotor_count THEN val ELSE ForwardPass(pos, doForwardCipher(i, pos, val), i + 1)

\* The loop from rotors.rbegin() to rotors.rend().
ReversePass(pos, val, i) ==
  IF i < 1 THEN val ELSE ReversePass(pos, doReverseCipher(i, pos, val), i - 1)

\* EnigmaMachine::encode(val) at rotor positions pos.
encode(pos, val) == ReversePass(pos, reflector[ForwardPass(pos, val, 1)], rotor_count)

RECURSIVE ForwardChecked(_, _, _)
RECURSIVE ReverseChecked(_, _, _)

\* assert(val < base) of every doForwardCipher of the forward loop.
ForwardChecked(pos, val, i) ==
  \/ i > rotor_count
  \/ /\ val < base
     /\ ForwardChecked(pos, doForwardCipher(i, pos, val), i + 1)

\* assert(val < base) of every doReverseCipher of the reverse loop.
ReverseChecked(pos, val, i) ==
  \/ i < 1
  \/ /\ val < base
     /\ ReverseChecked(pos, doReverseCipher(i, pos, val), i - 1)

\* Whether encode(val) returns: no assert of its lookups fails, or the build
\* has none.
encodeReturns(pos, val) ==
  \/ NDEBUG
  \/ /\ ForwardChecked(pos, val, 1)
     /\ ReverseChecked(pos, reflector[ForwardPass(pos, val, 1)], rotor_count)

\* encodeNext that encodes before it advances.
encodeNext_encodeFirst(val) ==
  [st |-> machineAdvance(1), ret |-> encode(position, val),
   returns |-> encodeReturns(position, val)]

\* EnigmaMachine::encodeNext(val): advance(); return encode(val).
encodeNext(val) ==
  LET st == machineAdvance(1)
  IN  [st |-> st, ret |-> encode(st.position, val),
       returns |-> encodeReturns(st.position, val)]

\* ------------------------------------------------------------ the rotors built

\* F[i] = (i + 1) mod b
ShiftTable(b) == [i \in AllBits(b) |-> (i + 1) % b]

\* F[i] = b - 1 - i, an involution
MirrorTable(b) == [i \in AllBits(b) |-> b - 1 - i]

\* reflectorB of main()
ReflectorB ==
  [i \in AllBits(MainBase) |->
     <<24, 17, 20, 7, 16, 18, 11, 3, 15, 23, 13, 6, 14,
       10, 12, 8, 4, 1, 5, 25, 2, 22, 21, 9, 0, 19>>[i + 1]]

Tables(b) == {ShiftTable(b), MirrorTable(b)}

\* The notch sets tried for a rotor that is neither first nor last.
FewNotches(b) == {{}, {0}, {b - 1}, AllBits(b)}

Bases == 1 .. MaxBase

\* Assemblies that differ in their notches: the first rotor has any notch
\* set, the last of several has none.
NotchSets(b, k) ==
  {m \in [1 .. k -> SUBSET AllBits(b)] :
     /\ \A i \in 2 .. (k - 1) : m[i] \in FewNotches(b)
     /\ k > 1 => m[k] = {}}

NotchConfigs(k) ==
  UNION {{[base |-> b, cipher |-> [i \in 1 .. k |-> ShiftTable(b)],
           notches |-> n, reflector |-> MirrorTable(b)] : n \in NotchSets(b, k)} :
         b \in Bases}

\* Assemblies that differ in their wiring.
CipherConfigs(k) ==
  UNION {{[base |-> b, cipher |-> c, notches |-> [i \in 1 .. k |-> {0}],
           reflector |-> r] : c \in [1 .. k -> Tables(b)], r \in Tables(b)} :
         b \in Bases}

\* One rotor F[i] = (i + 1) mod 26 without notches, and reflectorB.
ScenarioConfig ==
  [base |-> MainBase, cipher |-> <<ShiftTable(MainBase)>>, notches |-> <<{}>>,
   reflector |-> ReflectorB]

Configs ==
  UNION {NotchConfigs(k) \cup CipherConfigs(k) : k \in 1 .. RotorCount} \cup {ScenarioConfig}

Generators == {"g1", "g2"}

\* What an Index that was never written may hold.
Indeterminate(b) == {0, IndexMax}

\* The constructor's loop writing i + 1 for i.
ReverseCiphers_offByOne(cipher, b) ==
  {[v \in AllBits(b) |->
      IF v \in Written(cipher, b) THEN LastIndexOf(cipher, b, v) + 1 ELSE junk[v]] :
     junk \in [AllBits(b) \ Written(cipher, b) -> Indeterminate(b)]}

\* Rotor::Rotor: the reverse tables the constructor's loop can leave, one for
\* each content of the entries it does not write.
ReverseCiphers(cipher, b) ==
  {[v \in AllBits(b) |->
      IF v \in Written(cipher, b) THEN LastIndexOf(cipher, b, v) ELSE junk[v]] :
     junk \in [AllBits(b) \ Written(cipher, b) -> Indeterminate(b)]}

\* The reverse tables of the rotors constructed from the forward tables
\* ciphers, one choice for each rotor.
ReverseTables(ciphers, b) ==
  {r \in [1 .. Len(ciphers) ->
            UNION {ReverseCiphers(ciphers[i], b) : i \in 1 .. Len(ciphers)}] :
     \A i \in 1 .. Len(ciphers) : r[i] \in ReverseCiphers(ciphers[i], b)}

\* No call is under way: the caller has taken the last result.
Idle(pos) ==
  [op |-> "idle", rotor |-> 0, gen |-> "", arg |-> 0, ret |-> 0, pre |-> pos,
   adv |-> [i \in DOMAIN pos |-> <<>>], cb |-> [i \in DOMAIN pos |-> <<>>]]

\* The rotors just constructed: position 0 and the default callback.
Rotors(cfg) ==
  /\ base = cfg.base
  /\ rotor_count = Len(cfg.cipher)
  /\ forward_cipher = cfg.cipher
  /\ reverse_cipher \in ReverseTables(cfg.cipher, cfg.base)
  /\ notches = cfg.notches
  /\ reflector = cfg.reflector
  /\ turnover_callback = [i \in 1 .. Len(cfg.cipher) |-> 0]
  /\ position = [i \in 1 .. Len(cfg.cipher) |-> 0]
  /\ assembled = FALSE
  /\ seq_val = <<>>
  /\ seeded = <<>>
  /\ drawn = <<>>
  /\ last = Idle([i \in 1 .. Len(cfg.cipher) |-> 0])

\* The build with its asserts compiled in.  The rotors of Configs and the
\* arguments of Next fail none of them, so the build without them goes
\* through the same states.
Init == NDEBUG = FALSE /\ \E cfg \in Configs : Rotors(cfg)

\* The callbacks the EnigmaMachine constructor sets: every rotor but the last
\* advances its successor; the last keeps the callback it has.
Wired(callback, k) == [i \in 1 .. k |-> IF i < k THEN i + 1 ELSE callback[i]]

Called(op, rotor, arg, ret, st) ==
  [op |-> op, rotor |-> rotor, gen |-> "", arg |-> arg, ret |-> ret, pre |-> position,
   adv |-> st.adv, cb |-> st.cb]

\* A failed assert: abort() ends the program inside the call.
Aborted(arg, st) == Called("abort", 0, arg, 0, st)

\* Calls are synchronous: the next one starts when the caller has the result.
Ready == last.op = "idle"

Steps == 0 .. (Laps * base)

\* r.advance() on a rotor not yet in a machine.
Rotor_advance(i) ==
  /\ Ready /\ ~assembled
  /\ LET st == RotorAdvance(Before, i)
     IN  /\ position' = st.position
         /\ last' = Called("Rotor::advance", i, 0, st.position[i], st)
  /\ UNCHANGED <<config, turnover_callback, assembled, generators>>

\* r.advance(steps) on a rotor not yet in a machine.
Rotor_advanceSteps(i, steps) ==
  /\ Ready /\ ~assembled
  /\ LET st == RotorAdvanceSteps(Before, i, steps)
     IN  /\ position' = st.position
         /\ last' = Called("Rotor::advance(steps)", i, steps, st.position[i], st)
  /\ UNCHANGED <<config, turnover_callback, assembled, generators>>

\* r.advance(steps), steps a 64-bit number, on a rotor not yet in a machine:
\* its callback is ignoreTurnover.
Rotor_advanceSteps64(i, steps) ==
  /\ Ready /\ ~assembled
  /\ LET r == advanceSteps64(position[i], notches[i], base, steps)
         called == [Before EXCEPT !.position[i] = r.position, !.adv[i] = <<steps>>,
                                  !.cb[i] = IF r.knocks # Wide(0) THEN <<r.knocks>> ELSE <<>>]
     IN  /\ position' = called.position
         /\ last' = Called("Rotor::advance(steps)", i, steps, r.position, called)
  /\ UNCHANGED <<config, turnover_callback, assembled, generators>>

\* EnigmaMachine::EnigmaMachine on the rotors as they stand.
EnigmaMachine_new ==
  /\ Ready /\ ~assembled
  /\ assembled' = TRUE
  /\ turnover_callback' = Wired(turnover_callback, rotor_count)
  /\ UNCHANGED <<config, position, generators, last>>

EnigmaMachine_advance(steps) ==
  /\ Ready /\ assembled
  /\ LET st == machineAdvance(steps)
     IN  /\ position' = st.position
         /\ last' = Called("advance", 0, steps, 0, st)
  /\ UNCHANGED <<config, turnover_callback, assembled, generators>>

\* encode that steps the rotors as a key press does.
EnigmaMachine_encode_stepping(val) ==
  /\ Ready /\ assembled
  /\ LET st == machineAdvance(1)
     IN  /\ position' = st.position
         /\ last' = IF encodeReturns(st.position, val)
                      THEN Called("encode", 0, val, encode(st.position, val), Before)
                      ELSE Aborted(val, Before)
  /\ UNCHANGED <<config, turnover_callback, assembled, generators>>

EnigmaMachine_encode(val) ==
  /\ Ready /\ assembled
  /\ last' = IF encodeReturns(position, val)
               THEN Called("encode", 0, val, encode(position, val), Before)
               ELSE Aborted(val, Before)
  /\ UNCHANGED <<config, turnover_callback, position, assembled, generators>>

EnigmaMachine_encodeNext(val) ==
  /\ Ready /\ assembled
  /\ LET r == encodeNext(val)
     IN  /\ position' = r.st.position
         /\ last' = IF r.returns
                      THEN Called("encodeNext", 0, val, r.ret, r.st)
                      ELSE Aborted(val, r.st)
  /\ UNCHANGED <<config, turnover_callback, assembled, generators>>

\* ---------------------------------------------------------------- Generator

\* Generator::min()
min == 0

\* Generator::max() of Generator<IndexT, b, rotor_count>
max(b) == b - 1

\* The seeds tried: every code point, and one value that is none.
Seeds == AllBits(base) \cup {IndexMax}

\* Generator::Generator(machine, seed)
Generator_new(g, s) ==
  /\ Ready /\ assembled
  /\ g \notin DOMAIN seq_val
  /\ seq_val' = seq_val @@ (g :> s)
  /\ seeded' = seeded @@ (g :> (s < base))
  /\ drawn' = drawn @@ (g :> 0)
  /\ UNCHANGED <<config, turnover_callback, position, assembled, last>>

\* A draw that returns the value and does not keep it.
Draw_valueNotKept(g) ==
  /\ Ready /\ assembled
  /\ g \in DOMAIN seq_val
  /\ LET r == encodeNext(seq_val[g])
     IN  /\ position' = r.st.position
         /\ seq_val' = seq_val
         /\ last' = IF r.returns
                      THEN [Called("Generator()", 0, seq_val[g], r.ret, r.st)
                              EXCEPT !.gen = g]
                      ELSE [Aborted(seq_val[g], r.st) EXCEPT !.gen = g]
  /\ UNCHANGED <<config, turnover_callback, assembled, seeded>>

\* A draw that encodes and leaves the machine where it is.
Draw_machineNotAdvanced(g) ==
  /\ Ready /\ assembled
  /\ g \in DOMAIN seq_val
  /\ position' = position
  /\ seq_val' = IF encodeReturns(position, seq_val[g])
                  THEN [seq_val EXCEPT ![g] = encode(position, seq_val[g])]
                  ELSE seq_val
  /\ last' = IF encodeReturns(position, seq_val[g])
               THEN [Called("Generator()", 0, seq_val[g], encode(position, seq_val[g]), Before)
                       EXCEPT !.gen = g]
               ELSE [Aborted(seq_val[g], Before) EXCEPT !.gen = g]
  /\ UNCHANGED <<config, turnover_callback, assembled, seeded>>

\* Generator::operator(): seq_val = machine.encodeNext(seq_val); return seq_val.
Draw(g) ==
  /\ Ready /\ assembled
  /\ g \in DOMAIN seq_val
  /\ LET r == encodeNext(seq_val[g])
     IN  /\ position' = r.st.position
         /\ seq_val' = IF r.returns THEN [seq_val EXCEPT ![g] = r.ret] ELSE seq_val
         /\ last' = IF r.returns
                      THEN [Called("Generator()", 0, seq_val[g], r.ret, r.st)
                              EXCEPT !.gen = g]
                      ELSE [Aborted(seq_val[g], r.st) EXCEPT !.gen = g]
  /\ UNCHANGED <<config, turnover_callback, assembled, seeded>>

\* A draw that is not counted.
Generator_call(g) == Draw(g) /\ UNCHANGED drawn

\* A draw that is counted, of a generator drawn from less than MaxDraws times.
Generator_callCounted(g) ==
  /\ g \in DOMAIN drawn
  /\ drawn[g] < MaxDraws
  /\ Draw(g)
  /\ drawn' = [drawn EXCEPT ![g] = @ + 1]

\* The caller takes the result and goes on; after abort() nobody does.
Return ==
  /\ ~Ready /\ last.op # "abort"
  /\ last' = Idle(position)
  /\ UNCHANGED <<config, turnover_callback, position, assembled, generators>>

Next ==
  \/ \E i \in 1 .. rotor_count : Rotor_advance(i)
  \/ \E i \in 1 .. rotor_count, steps \in Steps : Rotor_advanceSteps(i, steps)
  \/ EnigmaMachine_new
  \/ \E steps \in Steps : EnigmaMachine_advance(steps)
  \/ \E val \in AllBits(base) : EnigmaMachine_encode(val)
  \/ \E val \in AllBits(base) : EnigmaMachine_encodeNext(val)
  \/ Return

Spec == Init /\ [][Next]_vars

\* F[i] = i but for the last entry, which is 0: every entry is a code point,
\* 0 is named twice and base - 1 never.
CollapsedTable(b) == [i \in AllBits(b) |-> IF i = b - 1 THEN 0 ELSE i]

\* The machines the generators are drawn from: one or two rotors, wired as
\* permutations or not.
GeneratorConfigs ==
  UNION {UNION {{[base |-> b, cipher |-> c, notches |-> [i \in 1 .. k |-> {0}],
                  reflector |-> ShiftTable(b)] :
                   c \in [1 .. k -> {ShiftTable(b), CollapsedTable(b)}]} :
                k \in 1 .. 2} :
         b \in Bases}

\* Either build of the program.
Build == NDEBUG \in BOOLEAN

InitGenerator == Build /\ \E cfg \in GeneratorConfigs : Rotors(cfg)

\* The steps the machine is advanced by between draws.
FewSteps == 0 .. Laps

NextGenerator ==
  \/ EnigmaMachine_new
  \/ \E steps \in FewSteps : EnigmaMachine_advance(steps)
  \/ \E g \in Generators, s \in Seeds : Generator_new(g, s)
  \/ \E g \in Generators : Generator_call(g)
  \/ Return

SpecGenerator == InitGenerator /\ [][NextGenerator]_vars

\* Two rotors in a machine that only generators advance: every draw counted.
InitShared == Build /\ \E cfg \in NotchConfigs(2) \cup CipherConfigs(2) : Rotors(cfg)

NextShared ==
  \/ EnigmaMachine_new
  \/ \E g \in Generators, s \in Seeds : Generator_new(g, s)
  \/ \E g \in Generators : Generator_callCounted(g)
  \/ Return

SpecShared == InitShared /\ [][NextShared]_vars

\* F[i] = i but for the last entry, which is v.
UncheckedTable(b, v) == [i \in AllBits(b) |-> IF i = b - 1 THEN v ELSE i]

\* The bits of the byte n that a std::bitset<b> holds.
BitsOf(n, b) == {j \in AllBits(b) : (n \div (2 ^ j)) % 2 = 1}

\* reverse_cipher[cipher[i]] = i with cipher[i] >= base stores the byte i past
\* the end of the array, which is undefined: the store misses the members of
\* the rotor, or it lands on the low byte of position or of notches, which
\* follow reverse_cipher in the object, or it faults.
StrayStores == {"missed", "position", "notches", "fault"}

\* One rotor constructed from a table whose last value is not a code point:
\* the least such value, or the greatest an Index holds.
InitUnchecked ==
  /\ Build
  /\ \E b \in Bases, store \in StrayStores :
       \E S \in SUBSET AllBits(b), v \in {b, IndexMax} :
         /\ base = b
         /\ rotor_count = 1
         /\ forward_cipher = <<UncheckedTable(b, v)>>
         /\ reverse_cipher \in ReverseTables(<<UncheckedTable(b, v)>>, b)
         /\ notches = <<IF store = "notches" THEN BitsOf(b - 1, b) ELSE S>>
         /\ position = <<IF store = "position" THEN b - 1 ELSE 0>>
         /\ last = IF store = "fault"
                     THEN [Idle(<<0>>) EXCEPT !.op = "abort"]
                     ELSE Idle(<<IF store = "position" THEN b - 1 ELSE 0>>)
  /\ reflector = MirrorTable(base)
  /\ turnover_callback = <<0>>
  /\ assembled = FALSE
  /\ seq_val = <<>>
  /\ seeded = <<>>
  /\ drawn = <<>>

NextUnchecked ==
  \/ Rotor_advance(1)
  \/ \E steps \in Steps : Rotor_advanceSteps(1, steps)
  \/ Return

SpecUnchecked == InitUnchecked /\ [][NextUnchecked]_vars

\* The step counts at either end of std::size_t.
WideSteps == {Wide(n) : n \in Steps} \cup {SizeMaxLess(k) : k \in Steps}

\* One rotor, advanced by step counts of the full width.
InitWide == Build /\ \E cfg \in NotchConfigs(1) : Rotors(cfg)

NextWide ==
  \/ Rotor_advance(1)
  \/ \E steps \in WideSteps : Rotor_advanceSteps64(1, steps)
  \/ Return

SpecWide == InitWide /\ [][NextWide]_vars

\* -------------------------------------------------------------- properties

RECURSIVE Sum(_)
Sum(q) == IF q = <<>> THEN 0 ELSE Head(q) + Sum(Tail(q))

\* n calls of the single-step advance() from position p: the final position
\* and the number of callback invocations, each with count 1.
RECURSIVE SingleSteps(_, _, _, _)
SingleSteps(p, S, b, n) ==
  IF n = 0
    THEN [position |-> p, knocks |-> 0]
    ELSE LET r == advance(p, S, b)
             rest == SingleSteps(r.position, S, b, n - 1)
         IN  [position |-> rest.position, knocks |-> r.knocks + rest.knocks]

RotorCalled == last.op = "Rotor::advance(steps)"

\* C1: one advance(n) on a rotor ends at the same position and delivers the
\* same total turnover count as n calls of advance() from the same start.
C1_BatchEqualsSingleSteps ==
  RotorCalled =>
    LET i == last.rotor
        ref == SingleSteps(last.pre[i], notches[i], base, last.arg)
    IN  /\ position[i] = ref.position
        /\ Sum(last.cb[i]) = ref.knocks

\* C2: Machine::advance(base) on two or more rotors leaves the first rotor where
\* it was and advances the second by the first's notch count; every rotor after
\* the first is advanced by exactly the counts its predecessor delivered.
C2_FullRevolution ==
  (last.op = "advance" /\ last.arg = base /\ rotor_count >= 2) =>
    /\ position[1] = last.pre[1]
    /\ Sum(last.adv[2]) = Cardinality(notches[1])
    /\ position[2] = (last.pre[2] + Cardinality(notches[1])) % base
    /\ \A i \in 1 .. (rotor_count - 1) :
         /\ last.adv[i + 1] = last.cb[i]
         /\ position[i + 1] = (last.pre[i + 1] + Sum(last.cb[i])) % base

C2_Witness ==
  /\ last.op = "advance" /\ last.arg = base /\ rotor_count = 3
  /\ last.pre[1] # 0
  /\ Cardinality(notches[1]) = 2
  /\ last.adv[2] = <<2>>
  /\ last.adv[3] # <<>>

\* C3: every rotor's position is in 0..base-1, whatever was called.
C3_PositionInRange == \A i \in 1 .. rotor_count : position[i] \in 0 .. (base - 1)

C3_Witness ==
  /\ last.op = "advance" /\ last.arg > 2 * base /\ rotor_count = 3
  /\ last.adv[3] # <<>> /\ Sum(last.adv[3]) > base

\* C4: encode(v) changes nothing of the machine, and encode(v) called again
\* right after it returns what it returned.
C4_EncodeIsPure ==
  [][last'.op = "encode" =>
       /\ UNCHANGED <<config, turnover_callback, position, assembled, generators>>
       /\ encode(position', last'.arg) = last'.ret]_vars

C4_Witness ==
  /\ last.op = "encode" /\ rotor_count = 3
  /\ \A i \in 1 .. 3 : position[i] # 0
  /\ last.ret # last.arg

\* The lookups of rotor i at the positions the call began with.
ForwardAt(i, x) == forward_cipher[i][(last.pre[i] + x) % base]

ReverseAt(i, x) == reverse_cipher[i][(last.pre[i] + x) % base]

Composition(v) ==
  CASE rotor_count = 1 -> ReverseAt(1, reflector[ForwardAt(1, v)])
    [] rotor_count = 2 ->
         ReverseAt(1, ReverseAt(2, reflector[ForwardAt(2, ForwardAt(1, v))]))
    [] rotor_count = 3 ->
         ReverseAt(1, ReverseAt(2, ReverseAt(3,
           reflector[ForwardAt(3, ForwardAt(2, ForwardAt(1, v)))])))

\* C5: encode(v) is the forward lookups of rotors 0..k-1, the reflector, then
\* the reverse lookups of rotors k-1..0; for one rotor F[i] = (i+1) mod 26 at
\* position 0, encode(0) = reverse_cipher[reflector[1]] = (reflector[1] - 1) mod 26.
C5_EncodeComposition ==
  last.op = "encode" =>
    /\ last.ret = Composition(last.arg)
    /\ (/\ rotor_count = 1 /\ base = MainBase
        /\ forward_cipher[1] = ShiftTable(MainBase)
        /\ position[1] = 0 /\ last.arg = 0) =>
         /\ last.ret = reverse_cipher[1][reflector[1]]
         /\ last.ret = (reflector[1] + MainBase - 1) % MainBase

C5_Witness ==
  /\ last.op = "encode" /\ rotor_count = 3 /\ base >= 3
  /\ forward_cipher[1] # forward_cipher[2]
  /\ position[1] # 0 /\ position[2] # 0 /\ position[1] # position[2]

\* Machine::advance(1) from the positions the call began with.
AfterOneStep ==
  RotorAdvanceSteps([position |-> last.pre, adv |-> NoCalls, cb |-> NoCalls], 1, 1).position

\* C6: encodeNext(v) advances the assembly by one step and returns encode(v)
\* at the positions reached; the first rotor ends one past where it was.
C6_EncodeNextAdvancesFirst ==
  last.op = "encodeNext" =>
    /\ last.adv[1] = <<1>>
    /\ position = AfterOneStep
    /\ position[1] = (last.pre[1] + 1) % base
    /\ last.ret = encode(position, last.arg)

C6_Witness ==
  /\ last.op = "encodeNext" /\ rotor_count >= 2
  /\ position[2] # last.pre[2]
  /\ last.ret # encode(last.pre, last.arg)

\* C8: Machine::advance(steps) advances the first rotor only; a later rotor
\* moves only if its predecessor delivered a turnover count in that call, so
\* when the first rotor passes no notch no other rotor moves.
C8_OnlyFirstRotorDirectly ==
  last.op = "advance" =>
    /\ last.adv[1] = <<last.arg>>
    /\ \A i \in 1 .. (rotor_count - 1) :
         position[i + 1] # last.pre[i + 1] => last.cb[i] # <<>>
    /\ SingleSteps(last.pre[1], notches[1], base, last.arg).knocks = 0 =>
         \A i \in 2 .. rotor_count : position[i] = last.pre[i]

\* The bits of the mask of advance(steps) from p to next: bit j stands for the
\* code point base - j of the arc between the two positions.
Arc(p, next) ==
  LET lead == IF p <= next THEN p ELSE next
      trail == IF p <= next THEN next ELSE p
      between == {j \in 0 .. (base - 1) : lead < base - j /\ base - j <= trail}
  IN  IF next < p THEN (0 .. (base - 1)) \ between ELSE between

Total(p, S, steps) ==
  ((p + steps) \div base) * Cardinality(S) + Cardinality(S \cap Arc(p, (p + steps) % base))

C10_SingleStep ==
  last.op = "Rotor::advance" =>
    LET i == last.rotor
        new == (last.pre[i] + 1) % base
    IN  /\ position[i] = new
        /\ last.ret = new
        /\ last.cb[i] = IF new \in notches[i] THEN <<1>> ELSE <<>>

C10_Witness ==
  /\ last.op = "Rotor::advance" /\ base >= 3
  /\ last.pre[last.rotor] = base - 1
  /\ last.cb[last.rotor] = <<1>>
  /\ (base - 1) \notin notches[last.rotor]

Permutation(table) ==
  /\ \A i \in DOMAIN table : table[i] \in DOMAIN table
  /\ \A i, j \in DOMAIN table : table[i] = table[j] => i = j

InRange(table) == \A i \in DOMAIN table : table[i] \in AllBits(base)

Drawn == last.op = "Generator()"

\* C7 as stated: with every table entry a code point and the seed a code
\* point, every value drawn is in min()..max() = 0..base-1.
C7_DrawInRange ==
  (/\ Drawn
   /\ \A i \in 1 .. rotor_count : InRange(forward_cipher[i])
   /\ InRange(reflector)
   /\ seeded[last.gen]) =>
    /\ last.ret \in min .. max(base)
    /\ last.ret \in 0 .. (base - 1)
    /\ min = 0 /\ max(MainBase) = 25

\* C7 amended: with every forward table a permutation of the code points, the
\* reflector's entries code points and the seed a code point, every value
\* drawn is in min()..max() = 0..base-1.
C7_DrawInRangeOfPermutations ==
  (/\ Drawn
   /\ \A i \in 1 .. rotor_count : Permutation(forward_cipher[i])
   /\ InRange(reflector)
   /\ seeded[last.gen]) =>
    /\ last.ret \in min .. max(base)
    /\ last.ret \in 0 .. (base - 1)
    /\ min = 0 /\ max(MainBase) = 25

C7_Witness ==
  /\ Drawn /\ rotor_count = 2 /\ base >= 3
  /\ \A i \in 1 .. rotor_count : Permutation(forward_cipher[i])
  /\ seeded[last.gen]
  /\ last.pre[2] # 0
  /\ last.ret = base - 1
  /\ last.arg # last.ret

\* C11: for a rotor whose forward table F is a permutation of 0..base-1 the
\* reverse table R has R[F[i]] = i for every i, in every state: whatever
\* advance operations were called, the tables are as the constructor left them.
C11_ReverseIsInverse ==
  \A r \in 1 .. rotor_count :
    Permutation(forward_cipher[r]) =>
      \A i \in AllBits(base) : reverse_cipher[r][forward_cipher[r][i]] = i

C11_Witness ==
  /\ last.op = "advance" /\ last.arg > base /\ rotor_count >= 2 /\ base >= 3
  /\ \A r \in 1 .. rotor_count : position[r] # 0
  /\ Permutation(forward_cipher[1])
  /\ reverse_cipher[1] # forward_cipher[1]

\* The reverse pass of a machine whose rotors hold the reverse tables rc.
RECURSIVE TwinReversePass(_, _, _, _)
TwinReversePass(rc, pos, val, i) ==
  IF i < 1 THEN val ELSE TwinReversePass(rc, pos, rc[i][(pos[i] + val) % base], i - 1)

\* encode(val) of a second machine built from the same forward tables and
\* reflector, its rotors holding the reverse tables rc, at positions pos.
TwinEncode(rc, pos, val) ==
  TwinReversePass(rc, pos, reflector[ForwardPass(pos, val, 1)], rotor_count)

\* A draw agrees with the draw of every second machine built from the same
\* tables, at the same positions, by a generator holding the same value.
DrawsAgree ==
  \A rc \in ReverseTables(forward_cipher, base) :
    /\ position = AfterOneStep
    /\ last.ret = TwinEncode(rc, AfterOneStep, last.arg)
    /\ seq_val[last.gen] = last.ret

\* C12 as stated: two generators over two machines with identical tables,
\* identical rotor positions and identical values draw the same value and
\* leave the same positions and value, so they agree at every draw; a draw is
\* value = machine.encodeNext(value).
C12_DrawsDeterministic == Drawn => DrawsAgree

\* C12 amended: the same, for machines whose forward tables are permutations.
C12_DrawsDeterministicOfPermutations ==
  (Drawn /\ \A i \in 1 .. rotor_count : Permutation(forward_cipher[i])) => DrawsAgree

C12_Witness ==
  /\ Drawn /\ rotor_count = 2 /\ base >= 3
  /\ \A i \in 1 .. rotor_count : Permutation(forward_cipher[i])
  /\ DOMAIN seq_val = Generators
  /\ last.pre[1] # 0 /\ last.pre[2] # 0 /\ position[2] # last.pre[2]
  /\ last.ret # last.arg

\* The rotor positions n calls of Machine::advance() away from pos.
RECURSIVE AfterSteps(_, _)
AfterSteps(pos, n) ==
  IF n = 0
    THEN pos
    ELSE AfterSteps(
           RotorAdvanceSteps([position |-> pos, adv |-> NoCalls, cb |-> NoCalls], 1, 1).position,
           n - 1)

\* The draws counted so far of the generators gs together.
RECURSIVE DrawnBy(_)
DrawnBy(gs) ==
  IF gs = {}
    THEN 0
    ELSE LET g == CHOOSE h \in gs : TRUE
         IN  drawn[g] + DrawnBy(gs \ {g})

AllDrawn == DrawnBy(DOMAIN drawn)

\* C13: generators on one machine share its rotors: every draw by either
\* advances the one machine by one step from the positions the calls before it
\* left and encodes there, so after m draws by one generator and n by the
\* other the machine, assembled at position 0, is m+n steps on.
C13_GeneratorsShareMachine ==
  /\ assembled => position = AfterSteps([i \in 1 .. rotor_count |-> 0], AllDrawn)
  /\ Drawn =>
       /\ last.adv[1] = <<1>>
       /\ position = AfterOneStep
       /\ last.ret = encode(position, last.arg)

C13_Witness ==
  /\ Drawn /\ last.gen = "g1" /\ base >= 3
  /\ DOMAIN drawn = Generators
  /\ drawn["g1"] >= 2 /\ drawn["g2"] >= 2
  /\ seq_val["g1"] # seq_val["g2"]
  /\ position[2] # 0

\* C14: a generator whose seed is outside 0..base-1 is rejected or stopped by
\* an assert: no draw returns that started from a value >= base.
C14_SeedOutsideRejected == Drawn => last.arg \in AllBits(base)

\* C15: constructing a rotor from a table with a value outside 0..base-1
\* fails, so that no rotor with such a table is there to be advanced.  (A
\* table of another length is no std::array<Index, base>: the types rule it
\* out.)
C15_ConstructionChecksTable ==
  last.op \in {"Rotor::advance", "Rotor::advance(steps)"} =>
    InRange(forward_cipher[last.rotor])

\* C16: advance(n) from position p sets position to (p + n) mod base and
\* returns it, for every p in 0..base-1, every n a std::size_t holds and every
\* notch set.
C16_BatchPosition ==
  RotorCalled =>
    LET i == last.rotor
        expected == (last.pre[i] + Division64(last.arg, base).remainder) % base
    IN  /\ position[i] = expected
        /\ last.ret = expected

\* C17: Machine::advance(n) leaves every rotor where n calls of
\* Machine::advance(), each of one step, leave it, from any positions and with
\* any notches.
C17_BatchEqualsSteps ==
  last.op = "advance" => position = AfterSteps(last.pre, last.arg)

Involution(table) == \A i \in DOMAIN table : table[i] \in DOMAIN table /\ table[table[i]] = i

\* C18: with a reflector that is an involution, encode undoes itself at every
\* vector of rotor positions: encode(encode(v)) = v for every code point v.
C18_EncodeSelfInverse ==
  (last.op = "encode" /\ Involution(reflector)) =>
    encode(position, last.ret) = last.arg

\* C19: with rotors built from permutation tables and a reflector that is a
\* permutation, encode at the rotor positions it is called at is a bijection
\* of 0..base-1: every result is a code point and no two code points share
\* one.
C19_EncodeIsBijection ==
  (/\ last.op = "encode"
   /\ \A i \in 1 .. rotor_count : Permutation(forward_cipher[i])
   /\ Permutation(reflector)) =>
    /\ last.ret \in AllBits(base)
    /\ Permutation([v \in AllBits(base) |-> encode(position, v)])

C19_Witness ==
  /\ last.op = "encode" /\ rotor_count = 3 /\ base >= 3
  /\ forward_cipher = <<ShiftTable(base), MirrorTable(base), ShiftTable(base)>>
  /\ reflector = ShiftTable(base)
  /\ position[1] = base - 1 /\ position[2] # 0 /\ position[3] # 0
  /\ encode(position, last.ret) # last.arg

====
